---- MODULE Spec2Model ----
(***************************************************************************)
(* A model of the online feature computation engine                        *)
(* (src/feature-processor/processor_enhanced.py): the feature registry,    *)
(* compute_features over the Redis cache, and the batch runner (run,       *)
(* process_batch, store_features, shutdown, cleanup).                      *)
(*                                                                         *)
(* Conventions.                                                            *)
(*  - Time is the wall clock in seconds (datetime.utcnow()).               *)
(*  - A timestamp string is the record [ok, t]: ok says whether            *)
(*    datetime.fromisoformat accepts it, t is its value in seconds.        *)
(*  - A feature value is the record [k, n, d]: k is the Python type        *)
(*    ("int", "bool", "none", "float"), n/d its value (d = 1 for ints and  *)
(*    bools, n/d the quotient of a true division).                         *)
(*  - A feature record is [id, f]: id holds the identity fields seeded at   *)
(*    lines 456-463 plus raw_event, f maps every other key of the Python   *)
(*    dict to its value.                                                   *)
(*  - A cache entry is [v, exp]: the value and the time its TTL ends.      *)
(*    Keys are triples of strings.  An expired key is not in the cache.    *)
(***************************************************************************)
EXTENDS Integers, Sequences, FiniteSets, TLC

\* ------------------------------------------------------------------ bounds
\* number of events the input topic / the compute driver may carry
MaxEvents == 2
\* largest count the raw_events table reports for a user in a window
MaxDbCount == 1
\* largest BATCH_SIZE
MaxBatchSize == 2
\* number of events the compute driver passes to compute_features
MaxComputes == 2
\* number of times the clock may advance
MaxAdvance == 1
\* number of seconds the runner's clock may tick
MaxTicks == 1

\* ------------------------------------------------------- program constants
SESSION_GAP == 1800
LAST_EVENT_TTL == 86400
FIRST_EVENT_TTL == 604800
EVENT_FREQ_TTL == 86400
NEW_USER_SECONDS == 86400
DEFAULT_TTL == 300
W1H == 3600
W6H == 21600
W24H == 86400
W7D == 604800
SECONDS_PER_HOUR == 3600
SECONDS_PER_DAY == 86400
\* datetime.weekday() of 1970-01-01 (a Thursday)
EPOCH_WEEKDAY == 3
\* BATCH_TIMEOUT, in seconds
BATCH_TIMEOUT == 1

\* ------------------------------------------------------------------ values
IntV(n) == [k |-> "int", n |-> n, d |-> 1]
BoolV(b) == [k |-> "bool", n |-> IF b THEN 1 ELSE 0, d |-> 1]
NoneV == [k |-> "none", n |-> 0, d |-> 1]
FloatV(n, d) == [k |-> "float", n |-> n, d |-> d]
IsNone(x) == x.k = "none"
Truthy(x) == x.k # "none" /\ x.n # 0

\* dict.update(g): the keys of g override those of f
Update(f, g) == g @@ f
EmptyDict == [x \in {} |-> NoneV]
\* dict.get(key, default)
Get(f, key, default) == IF key \in DOMAIN f THEN f[key] ELSE default

Max(a, b) == IF a >= b THEN a ELSE b
Min(a, b) == IF a <= b THEN a ELSE b

\* a parsable timestamp and an unparsable one
TS(t) == [ok |-> TRUE, t |-> t]
BadTS == [ok |-> FALSE, t |-> 0]

\* ---------------------------------------------------------------- registry
\* int(hashlib.md5(user_id.encode()).hexdigest(), 16) % 100 of the user ids
\* the model draws events from.
Users == {"user_0", "user_4"}
\* for each bucket 0..99 in turn, the first of user_0, user_1, ... whose
\* digest falls into it
BucketUsers == <<
    "user_75", "user_274", "user_93", "user_122", "user_38", "user_150",
    "user_183", "user_96", "user_135", "user_106", "user_22", "user_313",
    "user_42", "user_291", "user_14", "user_10", "user_49", "user_110",
    "user_17", "user_71", "user_76", "user_85", "user_12", "user_188",
    "user_21", "user_70", "user_4", "user_97", "user_290", "user_281",
    "user_15", "user_61", "user_81", "user_46", "user_237", "user_55",
    "user_6", "user_44", "user_200", "user_80", "user_89", "user_25",
    "user_72", "user_149", "user_92", "user_7", "user_62", "user_137",
    "user_47", "user_30", "user_53", "user_60", "user_50", "user_1",
    "user_126", "user_63", "user_9", "user_231", "user_54", "user_32",
    "user_3", "user_65", "user_90", "user_24", "user_132", "user_340",
    "user_8", "user_45", "user_2", "user_40", "user_56", "user_154",
    "user_0", "user_11", "user_73", "user_131", "user_39", "user_163",
    "user_105", "user_171", "user_31", "user_66", "user_69", "user_121",
    "user_37", "user_33", "user_48", "user_100", "user_34", "user_181",
    "user_20", "user_5", "user_13", "user_166", "user_127", "user_145",
    "user_43", "user_16", "user_102", "user_78" >>
HashBucket(user_id) ==
    IF user_id = "user_0" THEN 72
    ELSE IF user_id = "user_4" THEN 26
    ELSE (CHOOSE k \in DOMAIN BucketUsers : BucketUsers[k] = user_id) - 1

\* First entry of the sequence s that satisfies Test, as an index (0: none).
RECURSIVE FirstVariantIdx(_, _, _)
FirstVariantIdx(variants, id, i) ==
    IF i > Len(variants) THEN 0
    ELSE IF variants[i].id = id THEN i
    ELSE FirstVariantIdx(variants, id, i + 1)

RECURSIVE FirstFeatureIdx(_, _, _)
FirstFeatureIdx(features, name, i) ==
    IF i > Len(features) THEN 0
    ELSE IF features[i].name = name THEN i
    ELSE FirstFeatureIdx(features, name, i + 1)

\* get_feature_ttl ignoring the per-feature table
get_feature_ttl_Default(reg, feature_name) == reg.default_ttl_seconds

\* FeatureRegistry.get_feature_ttl
get_feature_ttl(reg, feature_name) ==
    IF feature_name \in DOMAIN reg.feature_ttls
    THEN reg.feature_ttls[feature_name]
    ELSE reg.default_ttl_seconds

\* VariantWalk with the comparison of line 77 turned into <=
RECURSIVE VariantWalk_Inclusive(_, _, _, _)
VariantWalk_Inclusive(variants, bucket, i, cumulative) ==
    IF i > Len(variants) THEN "A"
    ELSE LET c == cumulative + variants[i].traffic_percentage
         IN IF bucket <= c THEN variants[i].id
            ELSE VariantWalk_Inclusive(variants, bucket, i + 1, c)

\* the walk of FeatureRegistry.get_user_variant over the variant list
RECURSIVE VariantWalk(_, _, _, _)
VariantWalk(variants, bucket, i, cumulative) ==
    IF i > Len(variants) THEN "A"
    ELSE LET c == cumulative + variants[i].traffic_percentage
         IN IF bucket < c THEN variants[i].id
            ELSE VariantWalk(variants, bucket, i + 1, c)

\* FeatureRegistry.get_user_variant
get_user_variant(reg, user_id) ==
    IF ~reg.ab_enabled THEN "A"
    ELSE VariantWalk(reg.variants, HashBucket(user_id), 1, 0)

\* should_compute_feature answering False for a name no category defines
should_compute_feature_UnknownOff(reg, feature_name, variant) ==
    LET vi == FirstVariantIdx(reg.variants, variant, 1)
        fi == FirstFeatureIdx(reg.features, feature_name, 1)
    IN IF vi = 0 THEN TRUE
       ELSE IF fi = 0 THEN FALSE
       ELSE LET version == reg.variants[vi].features_version
            IN reg.features[fi].version = version \/ version = "v2"

\* FeatureRegistry.should_compute_feature: the first variant with this id
\* decides, by the first definition of the feature; with no such variant or
\* no such definition the result is True.
should_compute_feature(reg, feature_name, variant) ==
    LET vi == FirstVariantIdx(reg.variants, variant, 1)
        fi == FirstFeatureIdx(reg.features, feature_name, 1)
    IN IF vi = 0 \/ fi = 0 THEN TRUE
       ELSE LET version == reg.variants[vi].features_version
            IN reg.features[fi].version = version \/ version = "v2"

\* ------------------------------------------------------------------- cache
ActivityKey(user_id, w) == <<"activity", user_id, w>>
EventFreqKey(user_id, event_type) == <<"event_freq", user_id, event_type>>
LastEventKey(user_id) == <<"last_event", user_id, "">>
FirstEventKey(user_id) == <<"first_event", user_id, "">>

EmptyCache == [x \in {} |-> [v |-> 0, exp |-> 0]]
\* redis GET: the key is there until its TTL ends
Present(c, key) == key \in DOMAIN c
\* redis SETEX key ttl value at time now
Setex(c, key, ttl, value, now) == (key :> [v |-> value, exp |-> now + ttl]) @@ c
\* the keys whose TTL has ended by time now are gone
Purge(c, now) == [key \in {x \in DOMAIN c : c[x].exp > now} |-> c[key]]

\* ------------------------------------------------------------- the features
\* compute_temporal_features: a timestamp that does not parse omits all three
compute_temporal_features(reg, now, event, variant) ==
    LET timestamp == Get(event, "ingested_at", TS(now))
        hour == (timestamp.t \div SECONDS_PER_HOUR) % 24
        weekday == (EPOCH_WEEKDAY + timestamp.t \div SECONDS_PER_DAY) % 7
        f1 == IF should_compute_feature(reg, "hour_of_day", variant)
              THEN "hour_of_day" :> IntV(hour) ELSE EmptyDict
        f2 == IF should_compute_feature(reg, "day_of_week", variant)
              THEN Update(f1, "day_of_week" :> IntV(weekday)) ELSE f1
        f3 == IF should_compute_feature(reg, "is_weekend", variant)
              THEN Update(f2, "is_weekend" :> BoolV(weekday >= 5)) ELSE f2
    IN IF timestamp.ok THEN f3 ELSE EmptyDict

EVENT_TYPES == {"login", "logout", "purchase", "view", "click", "search"}
DEVICE_TYPES == {"mobile", "desktop", "tablet"}
EventTypeKey(et) == IF et = "login" THEN "event_type_login"
                    ELSE IF et = "logout" THEN "event_type_logout"
                    ELSE IF et = "purchase" THEN "event_type_purchase"
                    ELSE IF et = "view" THEN "event_type_view"
                    ELSE IF et = "click" THEN "event_type_click"
                    ELSE "event_type_search"
DeviceTypeKey(dt) == IF dt = "mobile" THEN "device_type_mobile"
                     ELSE IF dt = "desktop" THEN "device_type_desktop"
                     ELSE "device_type_tablet"
EventTypeKeys == {EventTypeKey(et) : et \in EVENT_TYPES}
DeviceTypeKeys == {DeviceTypeKey(dt) : dt \in DEVICE_TYPES}

\* compute_categorical_features: one-hot over the two fixed sets
compute_categorical_features(reg, event, variant) ==
    LET event_type == Get(event, "event_type", "unknown")
        device == Get(event, "device_type", "unknown")
        f1 == IF should_compute_feature(reg, "event_type_encoded", variant)
              THEN [key \in EventTypeKeys |->
                       IntV(IF key = EventTypeKey(event_type) /\ event_type \in EVENT_TYPES
                            THEN 1 ELSE 0)]
              ELSE EmptyDict
        f2 == IF should_compute_feature(reg, "device_type_encoded", variant)
              THEN [key \in DeviceTypeKeys |->
                       IntV(IF key = DeviceTypeKey(device) /\ device \in DEVICE_TYPES
                            THEN 1 ELSE 0)]
              ELSE EmptyDict
    IN Update(f1, f2)

\* the windows dict of compute_windowed_aggregations, in its order
Windows == << [name |-> "activity_count_1h", seconds |-> W1H, key |-> "3600"],
              [name |-> "activity_count_6h", seconds |-> W6H, key |-> "21600"],
              [name |-> "activity_count_24h", seconds |-> W24H, key |-> "86400"],
              [name |-> "activity_count_7d", seconds |-> W7D, key |-> "604800"] >>

\* _get_activity_count_from_db: the count of the user's raw_events rows in the
\* window, 0 when the query fails.  dbc[i] is what the table holds for window
\* i (the table is written by the ingestion side), dbUp whether the query runs.
get_activity_count_from_db(dbc, dbUp, i) == IF dbUp THEN dbc[i] ELSE 0

\* the loop of compute_windowed_aggregations over the windows, from window i
RECURSIVE WindowLoop(_, _, _, _, _, _, _, _, _)
WindowLoop(reg, c, now, user_id, variant, dbc, dbUp, i, f) ==
    IF i > Len(Windows) THEN [f |-> f, c |-> c]
    ELSE LET w == Windows[i]
             cache_key == ActivityKey(user_id, w.key)
             count == IF Present(c, cache_key)
                      THEN c[cache_key].v + 1
                      ELSE get_activity_count_from_db(dbc, dbUp, i) + 1
             ttl == get_feature_ttl(reg, w.name)
         IN IF ~should_compute_feature(reg, w.name, variant)
            THEN WindowLoop(reg, c, now, user_id, variant, dbc, dbUp, i + 1, f)
            ELSE WindowLoop(reg, Setex(c, cache_key, ttl, count, now), now, user_id,
                            variant, dbc, dbUp, i + 1, Update(f, w.name :> IntV(count)))

\* redis INCR followed by EXPIRE 86400 and GET (lines 357-359)
IncrEventFreq(c, key, now) ==
    Setex(c, key, EVENT_FREQ_TTL, (IF Present(c, key) THEN c[key].v ELSE 0) + 1, now)

\* lines 354-359 on the outcome w of the window loop
EventFrequency(reg, w, now, user_id, event_type, variant) ==
    IF should_compute_feature(reg, "event_type_frequency_24h", variant)
    THEN LET key == EventFreqKey(user_id, event_type)
             c2 == IncrEventFreq(w.c, key, now)
         IN [f |-> Update(w.f, "event_type_frequency_24h" :> IntV(c2[key].v)), c |-> c2]
    ELSE w

\* compute_windowed_aggregations: [f: the features, c: the cache afterwards]
compute_windowed_aggregations(reg, c, now, user_id, event_type, variant, dbc, dbUp) ==
    EventFrequency(reg, WindowLoop(reg, c, now, user_id, variant, dbc, dbUp, 1, EmptyDict),
                   now, user_id, event_type, variant)

\* int(redis.get(key) or 0)
CacheInt(c, key) == IF Present(c, key) THEN c[key].v ELSE 0

\* compute_ratio_features
compute_ratio_features(reg, c, user_id, features, variant) ==
    LET count_1h == Get(features, "activity_count_1h", IntV(0)).n
        count_24h == Get(features, "activity_count_24h", IntV(1)).n
        purchases == CacheInt(c, EventFreqKey(user_id, "purchase"))
        views == CacheInt(c, EventFreqKey(user_id, "view"))
        f1 == IF should_compute_feature(reg, "activity_trend", variant)
              THEN "activity_trend" :> FloatV(count_1h, Max(count_24h, 1))
              ELSE EmptyDict
        f2 == IF should_compute_feature(reg, "purchase_rate_24h", variant)
              THEN "purchase_rate_24h" :> FloatV(purchases, Max(views, 1))
              ELSE EmptyDict
    IN Update(f1, f2)

\* x > p/q for a value x = n/d with d > 0 and q > 0
Gt(x, p, q) == x.n * q > p * x.d

\* the v2 branch of compute_engagement_score
engagement_v2(features) ==
    LET count_1h == Get(features, "activity_count_1h", IntV(0)).n
        count_24h == Get(features, "activity_count_24h", IntV(0)).n
        trend == Get(features, "activity_trend", IntV(0))
        purchase_rate == Get(features, "purchase_rate_24h", IntV(0))
        activity == IF count_24h > 20 THEN 40
                    ELSE IF count_24h > 10 THEN 30
                    ELSE IF count_24h > 5 THEN 20
                    ELSE IF count_1h > 0 THEN 10 ELSE 0
        session == IF Truthy(Get(features, "is_active_session", BoolV(FALSE)))
                   THEN 20 ELSE 0
        trendpts == IF Gt(trend, 1, 2) THEN 20 ELSE IF Gt(trend, 1, 5) THEN 10 ELSE 0
        purchase == IF Gt(purchase_rate, 1, 10) THEN 20
                    ELSE IF Gt(purchase_rate, 1, 20) THEN 10 ELSE 0
    IN Min(activity + session + trendpts + purchase, 100)

\* engagement_v1 with the frequency tier paying 60 and no cap at 100
engagement_v1_Uncapped(features) ==
    LET count_1h == Get(features, "activity_count_1h", IntV(0)).n
        event_freq == Get(features, "event_type_frequency_24h", IntV(0)).n
        activity == IF count_1h > 5 THEN 30 ELSE IF count_1h > 2 THEN 15 ELSE 0
        session == IF Truthy(Get(features, "is_active_session", BoolV(FALSE)))
                   THEN 20 ELSE 0
        freq == IF event_freq > 10 THEN 60 ELSE 0
    IN activity + session + freq

\* the v1 branch of compute_engagement_score
engagement_v1(features) ==
    LET count_1h == Get(features, "activity_count_1h", IntV(0)).n
        event_freq == Get(features, "event_type_frequency_24h", IntV(0)).n
        activity == IF count_1h > 5 THEN 30 ELSE IF count_1h > 2 THEN 15 ELSE 0
        session == IF Truthy(Get(features, "is_active_session", BoolV(FALSE)))
                   THEN 20 ELSE 0
        freq == IF event_freq > 10 THEN 50 ELSE 0
    IN Min(activity + session + freq, 100)

\* compute_engagement_score
compute_engagement_score(reg, features, variant) ==
    IF variant = "B" /\ should_compute_feature(reg, "engagement_score_v2", variant)
    THEN engagement_v2(features)
    ELSE engagement_v1(features)

\* compute_features, stage by stage.  A stage takes the locals of the call,
\* fr = [error, user_id, timestamp, variant, id, f, c]: error names the
\* exception the call has left by ("" while it runs), f is the features
\* dict without the identity fields, c the cache as the call has left it.

\* Locals with the variant taken from the cache state: a user whose
\* last_event key is alive is served variant A
Locals_VariantFromCache(reg, c, now, event, user_id, variant) ==
    [error |-> "", user_id |-> user_id,
     variant |-> IF Present(c, LastEventKey(user_id)) THEN "A" ELSE variant,
     timestamp |-> Get(event, "ingested_at", TS(now)),
     id |-> [user_id |-> user_id, event_type |-> Get(event, "event_type", "unknown"),
             timestamp |-> Get(event, "ingested_at", TS(now)), computed_at |-> now,
             feature_version |-> reg.version,
             ab_variant |-> IF Present(c, LastEventKey(user_id)) THEN "A" ELSE variant,
             raw_event |-> event],
     f |-> EmptyDict, c |-> c]

\* Locals with feature_version taken from the features_version of the
\* user's variant
Locals_VersionOfVariant(reg, c, now, event, user_id, variant) ==
    [error |-> "", user_id |-> user_id, variant |-> variant,
     timestamp |-> Get(event, "ingested_at", TS(now)),
     id |-> [user_id |-> user_id, event_type |-> Get(event, "event_type", "unknown"),
             timestamp |-> Get(event, "ingested_at", TS(now)), computed_at |-> now,
             feature_version |->
                 LET vs == {n \in DOMAIN reg.variants : reg.variants[n].id = variant}
                 IN IF vs = {} THEN reg.version
                    ELSE reg.variants[CHOOSE n \in vs : TRUE].features_version,
             ab_variant |-> variant,
             raw_event |-> event],
     f |-> EmptyDict, c |-> c]

\* lines 448-463: the locals and the identity fields
Locals(reg, c, now, event, user_id, variant) ==
    [error |-> "", user_id |-> user_id, variant |-> variant,
     timestamp |-> Get(event, "ingested_at", TS(now)),
     id |-> [user_id |-> user_id, event_type |-> Get(event, "event_type", "unknown"),
             timestamp |-> Get(event, "ingested_at", TS(now)), computed_at |-> now,
             feature_version |-> reg.version, ab_variant |-> variant,
             raw_event |-> event],
     f |-> EmptyDict, c |-> c]

\* lines 465-471
TemporalCategorical(reg, now, event, fr) ==
    [fr EXCEPT !.f = Update(compute_temporal_features(reg, now, event, fr.variant),
                            compute_categorical_features(reg, event, fr.variant))]

\* lines 473-475; with Redis unreachable the first cache access of the call
\* (line 340, 357 or 479) raises and nothing has been written
WithWindows(fr, w) == [fr EXCEPT !.f = Update(fr.f, w.f), !.c = w.c]
Windowed(reg, now, fr, dbc, dbUp, cacheUp) ==
    IF ~cacheUp THEN [fr EXCEPT !.error = "ConnectionError"]
    ELSE WithWindows(fr, compute_windowed_aggregations(reg, fr.c, now, fr.user_id,
                            fr.id.event_type, fr.variant, dbc, dbUp))

\* lines 481-489: the delta to the cached last_event, None when the key is
\* absent or a timestamp does not parse
SecondsSinceLastEvent(c, key, timestamp) ==
    IF Present(c, key) /\ c[key].v.ok /\ timestamp.ok
    THEN FloatV(timestamp.t - c[key].v.t, 1)
    ELSE NoneV

\* lines 477-492
LastEvent(now, fr) ==
    IF fr.error # "" THEN fr
    ELSE [fr EXCEPT
            !.f = Update(fr.f, "seconds_since_last_event" :>
                     SecondsSinceLastEvent(fr.c, LastEventKey(fr.user_id), fr.timestamp)),
            !.c = Setex(fr.c, LastEventKey(fr.user_id), LAST_EVENT_TTL, fr.timestamp, now)]

\* lines 494-496: features.get('seconds_since_last_event', 1800) finds the key,
\* whose value may be None, and None < 1800 is a TypeError
Session(reg, fr) ==
    IF fr.error # "" \/ ~should_compute_feature(reg, "is_active_session", fr.variant)
    THEN fr
    ELSE IF IsNone(Get(fr.f, "seconds_since_last_event", IntV(SESSION_GAP)))
    THEN [fr EXCEPT !.error = "TypeError"]
    ELSE [fr EXCEPT !.f = Update(fr.f, "is_active_session" :>
               BoolV(Get(fr.f, "seconds_since_last_event", IntV(SESSION_GAP)).n
                     < SESSION_GAP))]

\* lines 505-512
HoursSinceFirst(c, key, timestamp) ==
    IF c[key].v.ok /\ timestamp.ok
    THEN timestamp.t - c[key].v.t < NEW_USER_SECONDS
    ELSE FALSE

\* lines 498-512
NewUser(reg, now, fr) ==
    IF fr.error # "" \/ ~should_compute_feature(reg, "is_new_user", fr.variant)
    THEN fr
    ELSE IF ~Present(fr.c, FirstEventKey(fr.user_id))
    THEN [fr EXCEPT
            !.c = Setex(fr.c, FirstEventKey(fr.user_id), FIRST_EVENT_TTL, fr.timestamp, now),
            !.f = Update(fr.f, "is_new_user" :> BoolV(TRUE))]
    ELSE [fr EXCEPT !.f = Update(fr.f, "is_new_user" :>
               BoolV(HoursSinceFirst(fr.c, FirstEventKey(fr.user_id), fr.timestamp)))]

\* lines 514-516
Ratios(reg, fr) ==
    IF fr.error # "" THEN fr
    ELSE [fr EXCEPT !.f = Update(fr.f,
               compute_ratio_features(reg, fr.c, fr.user_id, fr.f, fr.variant))]

\* lines 518-536.  The registries of this model have drift detection
\* disabled: record_feature_value (lines 526-528) returns at line 108.
Engagement(reg, fr) ==
    IF fr.error # "" THEN fr
    ELSE [fr EXCEPT !.f = Update(fr.f,
               (IF fr.variant = "B" THEN "engagement_score_v2" ELSE "engagement_score")
               :> IntV(compute_engagement_score(reg, fr.f, fr.variant)))]

\* compute_features: [error, id, f, c, ...], error naming the exception the
\* call leaves by ("" when it returns the record [id, f]) and c the cache
\* afterwards
compute_features(reg, c, now, event, dbc, dbUp, cacheUp) ==
    Engagement(reg, Ratios(reg, NewUser(reg, now, Session(reg, LastEvent(now,
        Windowed(reg, now,
            TemporalCategorical(reg, now, event,
                Locals(reg, c, now, event, Get(event, "user_id", "unknown"),
                       get_user_variant(reg, Get(event, "user_id", "unknown")))),
            dbc, dbUp, cacheUp))))))

\* ----------------------------------------------------------- DriftDetector
\* Floats are exact quotients [k |-> "float", n, d] with d > 0, in lowest
\* terms.  The std field of the stats hash, (m2 / count) ** 0.5, is held as
\* its square, variance; comparisons of standard deviations are made on the
\* squares.
RECURSIVE GCD(_, _)
GCD(a, b) == IF b = 0 THEN a ELSE GCD(b, a % b)
Abs(a) == IF a < 0 THEN -a ELSE a
FNorm(n, d) == FloatV(n \div GCD(Abs(n), d), d \div GCD(Abs(n), d))
FAdd(x, y) == FNorm(x.n * y.d + y.n * x.d, x.d * y.d)
FSub(x, y) == FNorm(x.n * y.d - y.n * x.d, x.d * y.d)
FMul(x, y) == FNorm(x.n * y.n, x.d * y.d)
FDivInt(x, count) == FNorm(x.n, x.d * count)
FAbs(x) == FloatV(Abs(x.n), x.d)
FGt(x, y) == x.n * y.d > y.n * x.d

DRIFT_WINDOW == 3600
STATS_TTL == 3600
BASELINE_TTL == 3600
DEFAULT_MEAN_SHIFT == 10
DEFAULT_STD_SHIFT == 5
\* a key written without a TTL stays
NO_EXPIRY == 1000000000

DriftValuesKey(feature_name) == <<"drift", "values", feature_name>>
DriftStatsKey(feature_name) == <<"drift", "stats", feature_name>>
DriftBaselineKey(feature_name) == <<"drift", "baseline", feature_name>>

\* lines 111-117: ZADD of the member "{timestamp}:{value}" scored by the
\* timestamp, then ZREMRANGEBYSCORE -inf cutoff
RecordValue(c, now, feature_name, value) ==
    (DriftValuesKey(feature_name) :>
        [v |-> {m \in (IF Present(c, DriftValuesKey(feature_name))
                       THEN c[DriftValuesKey(feature_name)].v ELSE {})
                      \cup {<<now, value>>} : m[1] > now - DRIFT_WINDOW},
         exp |-> NO_EXPIRY]) @@ c

\* hgetall of a stats hash that does not exist: every field takes its default
NoStats == [count |-> 0, mean |-> FloatV(0, 1), m2 |-> FloatV(0, 1),
            variance |-> FloatV(0, 1)]

\* lines 136-148: Welford's update of a stats hash by one value
Welford(stats, value) ==
    LET count == stats.count + 1
        delta == FSub(FloatV(value, 1), stats.mean)
        mean == FAdd(stats.mean, FDivInt(delta, count))
        delta2 == FSub(FloatV(value, 1), mean)
        m2 == FAdd(stats.m2, FMul(delta, delta2))
    IN [count |-> count, mean |-> mean, m2 |-> m2,
        variance |-> IF count > 1 THEN FDivInt(m2, count) ELSE FloatV(0, 1)]

\* DriftDetector._update_statistics
update_statistics(c, now, feature_name, value) ==
    Setex(c, DriftStatsKey(feature_name), STATS_TTL,
          Welford(IF Present(c, DriftStatsKey(feature_name))
                  THEN c[DriftStatsKey(feature_name)].v ELSE NoStats, value),
          now)

\* abs(sqrt(va) - sqrt(vb)) > threshold, decided on the squares: with hi the
\* larger and lo the smaller variance and u = hi - lo - threshold^2, the
\* difference of the roots exceeds the threshold iff u > 0 and
\* u^2 > 4 threshold^2 lo
StdShiftExceeds(va, vb, threshold) ==
    LET hi == IF FGt(va, vb) THEN va ELSE vb
        lo == IF FGt(va, vb) THEN vb ELSE va
        u == FSub(FSub(hi, lo), FloatV(threshold * threshold, 1))
    IN /\ u.n > 0
       /\ FGt(FMul(u, u), FMul(FloatV(4 * threshold * threshold, 1), lo))

\* Drifted looking at the mean alone
Drifted_MeanOnly(thresholds, baseline, current) ==
    FGt(FAbs(FSub(current.mean, baseline.mean)),
        FloatV(Get(thresholds, "mean_shift", DEFAULT_MEAN_SHIFT), 1))

\* lines 176-189: the comparison of the current stats with the baseline
Drifted(thresholds, baseline, current) ==
    \/ FGt(FAbs(FSub(current.mean, baseline.mean)),
           FloatV(Get(thresholds, "mean_shift", DEFAULT_MEAN_SHIFT), 1))
    \/ StdShiftExceeds(current.variance, baseline.variance,
                       Get(thresholds, "std_shift", DEFAULT_STD_SHIFT))

\* DriftDetector._check_drift: [c: the cache afterwards, alert: whether
\* DRIFT_ALERTS was incremented]
check_drift(reg, c, now, feature_name) ==
    IF feature_name \notin DOMAIN reg.drift_thresholds
    THEN [c |-> c, alert |-> FALSE]
    ELSE IF ~Present(c, DriftBaselineKey(feature_name))
    THEN [c |-> IF Present(c, DriftStatsKey(feature_name))
                THEN Setex(c, DriftBaselineKey(feature_name), BASELINE_TTL,
                           c[DriftStatsKey(feature_name)].v, now)
                ELSE c,
          alert |-> FALSE]
    ELSE IF ~Present(c, DriftStatsKey(feature_name))
    THEN [c |-> c, alert |-> FALSE]
    ELSE [c |-> c,
          alert |-> Drifted(reg.drift_thresholds[feature_name],
                            c[DriftBaselineKey(feature_name)].v,
                            c[DriftStatsKey(feature_name)].v)]

\* DriftDetector.record_feature_value
record_feature_value(reg, c, now, feature_name, value) ==
    IF ~reg.drift_enabled
    THEN [c |-> c, alert |-> FALSE]
    ELSE check_drift(reg,
             update_statistics(RecordValue(c, now, feature_name, value),
                               now, feature_name, value),
             now, feature_name)

\* ------------------------------------------------------------------- state
VARIABLES
    registry,         \* FeatureRegistry: the configuration loaded at startup
    cache,            \* the Redis keys that are alive
    now,              \* the wall clock, in seconds
    advances,         \* how often the clock has advanced
    drift_alerts,     \* DRIFT_ALERTS, per feature name
    fed,              \* drift driver: the samples recorded so far
    freq,             \* frequency driver: where lines 357-359 are, what they saw
    result,           \* compute driver: what the last compute_features gave
    computed,         \* compute driver: number of calls so far
    batch_size,       \* BATCH_SIZE
    topic,            \* raw-events: the messages produced so far
    position,         \* consumer: number of messages the iterator has yielded
    committed,        \* consumer group: the committed offset
    running,          \* self.running
    pc,               \* where run() is
    batch,            \* self.batch
    last_batch_time,  \* self.last_batch_time
    after,            \* process_batch was called from the loop or after it
    i,                \* process_batch: index of the loop it is in
    feature_batch,    \* process_batch: the records computed
    stored,           \* feature store: seq of the events whose commit succeeded
    db,               \* feature store: the features table
    published,        \* feature-events: the records sent
    dlq,              \* dead-letter-queue: the records sent
    events_processed, \* EVENTS_PROCESSED
    events_failed,    \* EVENTS_FAILED
    closed,           \* cleanup() has closed the connections
    oplog             \* observer: the cache passes and store writes, in the order made

envVars == <<registry, cache, now, advances, drift_alerts>>
driverVars == <<result, computed, fed, freq>>
runnerVars == <<batch_size, topic, position, committed, running, pc, batch,
                last_batch_time, after, i, feature_batch, stored, db, published,
                dlq, events_processed, events_failed, closed, oplog>>
vars == <<envVars, driverVars, runnerVars>>

\* ------------------------------------------------------------ configuration
\* The feature definitions of the registry, flattened in category order.
FeatureNames == << "hour_of_day", "day_of_week", "is_weekend",
                   "event_type_encoded", "device_type_encoded",
                   "activity_count_1h", "activity_count_6h",
                   "activity_count_24h", "activity_count_7d",
                   "event_type_frequency_24h", "seconds_since_last_event",
                   "is_active_session", "is_new_user", "activity_trend",
                   "purchase_rate_24h", "engagement_score",
                   "engagement_score_v2" >>
\* the definitions every configuration of the model declares version v2
BaseV2 == {"activity_count_6h", "activity_count_7d", "activity_trend",
           "purchase_rate_24h", "engagement_score_v2"}
\* the definitions a configuration may declare v2 in addition
ExtraV2 == {{}, {"seconds_since_last_event"}, {"is_active_session"}}

Registry(v2extra, enabled) ==
    [version |-> "v1",
     features |-> [n \in 1..Len(FeatureNames) |->
                      [name |-> FeatureNames[n],
                       version |-> IF FeatureNames[n] \in BaseV2 \cup v2extra
                                   THEN "v2" ELSE "v1"]],
     default_ttl_seconds |-> DEFAULT_TTL,
     feature_ttls |-> ("activity_count_24h" :> W1H),
     ab_enabled |-> enabled,
     variants |-> << [id |-> "A", traffic_percentage |-> 50, features_version |-> "v1"],
                     [id |-> "B", traffic_percentage |-> 50, features_version |-> "v2"] >>,
     drift_enabled |-> FALSE]
\* a configuration that declares the 24h window v2 and the trend v1: a
\* variant on v1 computes activity_trend without activity_count_24h
TrendRegistry ==
    [Registry({"activity_count_24h"}, TRUE) EXCEPT
        !.features = [n \in 1..Len(FeatureNames) |->
                         IF FeatureNames[n] = "activity_trend"
                         THEN [name |-> "activity_trend", version |-> "v1"]
                         ELSE @[n]]]
Registries == {Registry(x, TRUE) : x \in ExtraV2} \cup {Registry({}, FALSE)}
              \cup {TrendRegistry}

\* what raw_events may hold for a user: a count per window, larger windows
\* holding at least what smaller ones hold
DbCounts == {d \in [1..Len(Windows) -> 0..MaxDbCount] :
                \A a, b \in 1..Len(Windows) : a <= b => d[a] <= d[b]}
\* the services as one call of compute_features finds them: Redis down (the
\* call ends at its first cache access), or Redis up with the store down or
\* answering with some counts
Services ==
    {[cacheUp |-> FALSE, dbUp |-> TRUE, dbc |-> [w \in 1..Len(Windows) |-> 0]],
     [cacheUp |-> TRUE, dbUp |-> FALSE, dbc |-> [w \in 1..Len(Windows) |-> 0]]}
    \cup {[cacheUp |-> TRUE, dbUp |-> TRUE, dbc |-> d] : d \in DbCounts}

\* the events the compute driver draws for a user: views at a few instants
\* (in and out of order, 10 s, 30 min and 25 h apart), with a timestamp that
\* does not parse and with none, and events of other types and devices
EventTimes == {0, 10, 1800, 90000}
ClockSteps == {1800, 90000}
DriverEvents(u) ==
    {[user_id |-> u, event_type |-> "view", ingested_at |-> ts] :
        ts \in {TS(t) : t \in EventTimes} \cup {BadTS}}
    \cup {[user_id |-> u, event_type |-> "view"],
          [user_id |-> u, event_type |-> "purchase", ingested_at |-> TS(10),
           device_type |-> "mobile"],
          [user_id |-> u, event_type |-> "add_to_cart", ingested_at |-> TS(10),
           device_type |-> "tv"]}

InitRunner ==
    /\ batch_size \in 1..MaxBatchSize
    /\ topic = <<>>
    /\ position = 0
    /\ committed = 0
    /\ running = TRUE
    /\ pc = "poll"
    /\ batch = <<>>
    /\ last_batch_time = 0
    /\ after = "loop"
    /\ i = 1
    /\ feature_batch = <<>>
    /\ stored = {}
    /\ db = EmptyDict
    /\ published = <<>>
    /\ dlq = <<>>
    /\ events_processed = 0
    /\ events_failed = 0
    /\ closed = FALSE
    /\ oplog = <<>>

InitEnv ==
    /\ cache = EmptyCache
    /\ now = 0
    /\ advances = 0
    /\ drift_alerts = [name \in {"engagement_score", "activity_count_1h"} |-> 0]
    /\ fed = [phase |-> "low", low |-> 0, high |-> 0, counts |-> 0]
    /\ freq = [pc |-> "idle", user_id |-> "", own |-> 0, emitted |-> 0,
               done |-> 0, others |-> 0]
    /\ result = [error |-> "", id |-> EmptyDict, f |-> EmptyDict]
    /\ computed = 0

\* -------------------------------------------------------- the compute driver
\* compute_features called on one event of a user after the other, as
\* process_batch does, the clock advancing in between.  The keys
\* compute_features reads and writes are those of the event's user, so the
\* driver follows one user.
InitCompute ==
    /\ registry \in Registries
    /\ InitEnv
    /\ InitRunner
    /\ batch_size = 1

ComputeEvent ==
    /\ computed < MaxComputes
    /\ \E u \in Users, s \in Services :
          /\ computed > 0 => u = result.id.user_id
          /\ \E event \in DriverEvents(u) :
                \E r \in {compute_features(registry, cache, now, event,
                                          s.dbc, s.dbUp, s.cacheUp)} :
                   /\ result' = [error |-> r.error, id |-> r.id, f |-> r.f]
                   /\ cache' = r.c
    /\ computed' = computed + 1
    /\ UNCHANGED <<registry, now, advances, drift_alerts, fed, freq, runnerVars>>

\* time passes: the keys whose TTL ends are gone
Advance ==
    /\ advances < MaxAdvance
    /\ \E step \in ClockSteps :
          /\ now' = now + step
          /\ cache' = Purge(cache, now + step)
    /\ advances' = advances + 1
    /\ UNCHANGED <<registry, drift_alerts, driverVars, runnerVars>>

NextCompute == ComputeEvent \/ Advance
SpecCompute == InitCompute /\ [][NextCompute]_vars

\* ------------------------------------------------------------------ runner
\* store_features: the rows of one record, upserted by (user_id, feature_name);
\* identity fields and None values are skipped
FeatureRows(rec) ==
    [key \in {<<rec.id.user_id, name>> : name \in {n \in DOMAIN rec.f : ~IsNone(rec.f[n])}} |->
        [feature_value |-> rec.f[key[2]], computed_at |-> rec.id.computed_at,
         feature_version |-> rec.id.feature_version, ab_variant |-> rec.id.ab_variant]]
\* store_features with ON CONFLICT DO NOTHING: a row that exists is kept
store_features_KeepOld(table, rec) == table @@ FeatureRows(rec)
store_features(table, rec) == FeatureRows(rec) @@ table

Seq_(rec) == rec.id.raw_event.seq
SeqsOf(s) == {s[k].seq : k \in DOMAIN s}
RecordSeqs(s) == {Seq_(s[k]) : k \in DOMAIN s}

\* user_0 (variant B) computes is_active_session, user_4 (variant A) does not
RunnerRegistries == {Registry({"is_active_session"}, TRUE)}
\* the services as the runner's calls of compute_features find them: Redis
\* down or up, raw_events holding nothing for the user
RunnerServices == {s \in Services : s.dbUp /\ \A w \in 1..Len(Windows) : s.dbc[w] = 0}

\* one entry of the observer log: which operation was made for which event
OpOf(op, event) == [op |-> op, seq |-> event.seq, user_id |-> event.user_id]

Init ==
    /\ registry \in RunnerRegistries
    /\ InitEnv
    /\ InitRunner

\* a producer appends a message to raw-events; seq is a passthrough field
\* that tells the messages apart
Produce ==
    /\ Len(topic) < MaxEvents
    /\ \E u \in Users :
          topic' = Append(topic, [user_id |-> u, event_type |-> "view",
                                  ingested_at |-> TS(now), seq |-> Len(topic) + 1])
    /\ UNCHANGED <<envVars, driverVars, oplog, batch_size, position, committed, running, pc,
                   batch, last_batch_time, after, i, feature_batch, stored, db,
                   published, dlq, events_processed, events_failed, closed>>

\* the clock ticks one second
Tick ==
    /\ advances < MaxTicks
    /\ now' = now + 1
    /\ cache' = Purge(cache, now + 1)
    /\ advances' = advances + 1
    /\ UNCHANGED <<registry, drift_alerts, driverVars, runnerVars>>

\* SIGINT / SIGTERM: shutdown() clears the running flag
Shutdown ==
    /\ running
    /\ ~closed
    /\ running' = FALSE
    /\ UNCHANGED <<envVars, driverVars, oplog, batch_size, topic, position, committed, pc,
                   batch, last_batch_time, after, i, feature_batch, stored, db,
                   published, dlq, events_processed, events_failed, closed>>

\* enable_auto_commit=True: while run() is inside the consumer iterator, the
\* consumer commits the position it has reached, every auto_commit_interval_ms
AutoCommit ==
    /\ pc = "poll"
    /\ committed < position
    /\ committed' = position
    /\ UNCHANGED <<envVars, driverVars, oplog, batch_size, topic, position, running, pc,
                   batch, last_batch_time, after, i, feature_batch, stored, db,
                   published, dlq, events_processed, events_failed, closed>>

\* Poll with the timeout compared by > instead of >=
Poll_StrictTimeout ==
    /\ pc = "poll"
    /\ position < Len(topic)
    /\ position' = position + 1
    /\ IF ~running
       THEN /\ batch' = batch
            /\ after' = "exit"
            /\ pc' = IF batch # <<>> THEN "compute" ELSE "cleanup"
       ELSE LET b == Append(batch, topic[position + 1])
                time_since_batch == now - last_batch_time
            IN /\ batch' = b
               /\ after' = "loop"
               /\ pc' = IF Len(b) >= batch_size \/ time_since_batch > BATCH_TIMEOUT
                        THEN "compute" ELSE "poll"
    /\ i' = 1
    /\ feature_batch' = <<>>
    /\ UNCHANGED <<envVars, driverVars, oplog, batch_size, topic, committed, running,
                   last_batch_time, stored, db, published, dlq, events_processed,
                   events_failed, closed>>

\* one iteration of `for message in self.consumer` (lines 680-695), up to the
\* call of process_batch; with the running flag cleared the message is
\* dropped and the loop left (lines 681-682, 701-703)
Poll ==
    /\ pc = "poll"
    /\ position < Len(topic)
    /\ position' = position + 1
    /\ IF ~running
       THEN /\ batch' = batch
            /\ after' = "exit"
            /\ pc' = IF batch # <<>> THEN "compute" ELSE "cleanup"
       ELSE LET b == Append(batch, topic[position + 1])
                time_since_batch == now - last_batch_time
            IN /\ batch' = b
               /\ after' = "loop"
               /\ pc' = IF Len(b) >= batch_size \/ time_since_batch >= BATCH_TIMEOUT
                        THEN "compute" ELSE "poll"
    /\ i' = 1
    /\ feature_batch' = <<>>
    /\ UNCHANGED <<envVars, driverVars, oplog, batch_size, topic, committed, running,
                   last_batch_time, stored, db, published, dlq, events_processed,
                   events_failed, closed>>

\* the consumer iterator raises: lines 705-708, the buffered events are not
\* processed
ConsumerError ==
    /\ pc = "poll"
    /\ pc' = "cleanup"
    /\ UNCHANGED <<envVars, driverVars, oplog, batch_size, topic, position, committed, running,
                   batch, last_batch_time, after, i, feature_batch, stored, db,
                   published, dlq, events_processed, events_failed, closed>>

\* ComputeStep walking the batch from its last event to its first
ComputeStep_Reverse ==
    /\ pc = "compute"
    /\ \E s \in RunnerServices :
          \E r \in {compute_features(registry, cache, now, batch[Len(batch) + 1 - i],
                                    s.dbc, s.dbUp, s.cacheUp)} :
             /\ cache' = r.c
             /\ feature_batch' = IF r.error = ""
                                 THEN Append(feature_batch, [id |-> r.id, f |-> r.f])
                                 ELSE feature_batch
             /\ events_failed' = IF r.error = "" THEN events_failed ELSE events_failed + 1
             /\ IF i < Len(batch) THEN i' = i + 1 /\ pc' = "compute"
                ELSE i' = 1 /\ pc' = IF r.error # "" /\ feature_batch = <<>>
                                     THEN "flushed" ELSE "store"
    /\ oplog' = Append(oplog, OpOf("cache", batch[Len(batch) + 1 - i]))
    /\ UNCHANGED <<registry, now, advances, drift_alerts, driverVars, batch_size, topic, position,
                   committed, running, batch, last_batch_time, after, stored, db,
                   published, dlq, events_processed, closed>>

\* process_batch, first loop (lines 606-612): compute_features of event i
ComputeStep ==
    /\ pc = "compute"
    /\ \E s \in RunnerServices :
          \E r \in {compute_features(registry, cache, now, batch[i],
                                    s.dbc, s.dbUp, s.cacheUp)} :
             /\ cache' = r.c
             /\ feature_batch' = IF r.error = ""
                                 THEN Append(feature_batch, [id |-> r.id, f |-> r.f])
                                 ELSE feature_batch
             /\ events_failed' = IF r.error = "" THEN events_failed ELSE events_failed + 1
             /\ IF i < Len(batch) THEN i' = i + 1 /\ pc' = "compute"
                ELSE i' = 1 /\ pc' = IF r.error # "" /\ feature_batch = <<>>
                                     THEN "flushed" ELSE "store"
    /\ oplog' = Append(oplog, OpOf("cache", batch[i]))
    /\ UNCHANGED <<registry, now, advances, drift_alerts, driverVars, batch_size, topic, position,
                   committed, running, batch, last_batch_time, after, stored, db,
                   published, dlq, events_processed, closed>>

\* StoreStep with the two calls of lines 617 and 620 swapped: the record is
\* sent before store_features is tried
StoreStep_SendFirst ==
    /\ pc = "store"
    /\ \E dbOk \in BOOLEAN, sendOk \in BOOLEAN :
          LET rec == feature_batch[i]
          IN /\ ~sendOk => dbOk
             /\ published' = IF sendOk THEN Append(published, rec) ELSE published
             /\ stored' = IF sendOk /\ dbOk THEN stored \cup {Seq_(rec)} ELSE stored
             /\ db' = IF sendOk /\ dbOk THEN store_features(db, rec) ELSE db
             /\ events_processed' = IF dbOk /\ sendOk THEN events_processed + 1
                                    ELSE events_processed
             /\ events_failed' = IF dbOk /\ sendOk THEN events_failed
                                 ELSE events_failed + 1
    /\ oplog' = Append(oplog, OpOf("store", feature_batch[i].id.raw_event))
    /\ IF i < Len(feature_batch) THEN i' = i + 1 /\ pc' = "store"
       ELSE i' = 1 /\ pc' = "flushed"
    /\ UNCHANGED <<envVars, driverVars, batch_size, topic, position, committed, running,
                   batch, last_batch_time, after, feature_batch, dlq, closed>>

\* StoreStep with EVENTS_PROCESSED incremented between lines 617 and 620:
\* a record stored but not sent counts as processed and as failed
StoreStep_CountBeforeSend ==
    /\ pc = "store"
    /\ \E dbOk \in BOOLEAN, sendOk \in BOOLEAN :
          LET rec == feature_batch[i]
          IN /\ ~dbOk => sendOk
             /\ stored' = IF dbOk THEN stored \cup {Seq_(rec)} ELSE stored
             /\ db' = IF dbOk THEN store_features(db, rec) ELSE db
             /\ published' = IF dbOk /\ sendOk THEN Append(published, rec) ELSE published
             /\ events_processed' = IF dbOk THEN events_processed + 1
                                    ELSE events_processed
             /\ events_failed' = IF dbOk /\ sendOk THEN events_failed
                                 ELSE events_failed + 1
    /\ oplog' = Append(oplog, OpOf("store", feature_batch[i].id.raw_event))
    /\ IF i < Len(feature_batch) THEN i' = i + 1 /\ pc' = "store"
       ELSE i' = 1 /\ pc' = "flushed"
    /\ UNCHANGED <<envVars, driverVars, batch_size, topic, position, committed, running,
                   batch, last_batch_time, after, feature_batch, dlq, closed>>

\* process_batch, second loop (lines 615-625): store_features of record i
\* commits or rolls back and raises; producer.send follows a commit and may
\* raise too
StoreStep ==
    /\ pc = "store"
    /\ \E dbOk \in BOOLEAN, sendOk \in BOOLEAN :
          LET rec == feature_batch[i]
          IN /\ ~dbOk => sendOk
             /\ stored' = IF dbOk THEN stored \cup {Seq_(rec)} ELSE stored
             /\ db' = IF dbOk THEN store_features(db, rec) ELSE db
             /\ published' = IF dbOk /\ sendOk THEN Append(published, rec) ELSE published
             /\ events_processed' = IF dbOk /\ sendOk THEN events_processed + 1
                                    ELSE events_processed
             /\ events_failed' = IF dbOk /\ sendOk THEN events_failed
                                 ELSE events_failed + 1
    /\ oplog' = Append(oplog, OpOf("store", feature_batch[i].id.raw_event))
    /\ IF i < Len(feature_batch) THEN i' = i + 1 /\ pc' = "store"
       ELSE i' = 1 /\ pc' = "flushed"
    /\ UNCHANGED <<envVars, driverVars, batch_size, topic, position, committed, running,
                   batch, last_batch_time, after, feature_batch, dlq, closed>>

\* EndFlush without line 694: the buffer keeps the events just flushed
EndFlush_KeepBuffer ==
    /\ pc = "flushed"
    /\ IF after = "loop"
       THEN batch' = batch /\ last_batch_time' = now /\ pc' = "poll"
       ELSE batch' = batch /\ last_batch_time' = last_batch_time /\ pc' = "cleanup"
    /\ UNCHANGED <<envVars, driverVars, oplog, batch_size, topic, position, committed,
                   running, after, i, feature_batch, stored, db, published, dlq,
                   events_processed, events_failed, closed>>

\* process_batch has returned: the loop resets the buffer (lines 694-695);
\* after the loop (line 703) cleanup follows
EndFlush ==
    /\ pc = "flushed"
    /\ IF after = "loop"
       THEN batch' = <<>> /\ last_batch_time' = now /\ pc' = "poll"
       ELSE batch' = batch /\ last_batch_time' = last_batch_time /\ pc' = "cleanup"
    /\ UNCHANGED <<envVars, driverVars, oplog, batch_size, topic, position, committed, running,
                   after, i, feature_batch, stored, db, published, dlq,
                   events_processed, events_failed, closed>>

\* cleanup (lines 715-725); closing the consumer commits its position
Cleanup ==
    /\ pc = "cleanup"
    /\ closed' = TRUE
    /\ committed' = position
    /\ pc' = "closed"
    /\ UNCHANGED <<envVars, driverVars, oplog, batch_size, topic, position, running, batch,
                   last_batch_time, after, i, feature_batch, stored, db, published,
                   dlq, events_processed, events_failed>>

Run == Poll \/ ComputeStep \/ StoreStep \/ EndFlush \/ Cleanup
Next == Produce \/ Tick \/ Shutdown \/ AutoCommit \/ ConsumerError \/ Run
Spec == Init /\ [][Next]_vars
\* run() is one thread that keeps running: each of its steps that can be
\* taken is taken
FairSpec == Spec /\ WF_vars(Run)

\* ------------------------------------------------- the engagement score alone
\* compute_engagement_score called as line 519 calls it, on a features dict
\* drawn from the values the tiers of both algorithms tell apart (counts on
\* both sides of every threshold, the session flag set, cleared or absent,
\* ratios up to and beyond 1).
ScoreCounts1h == {0, 1, 3, 6}
ScoreCounts24h == {0, 6, 11, 21}
ScoreFreqs == {0, 10, 11}
ScoreRatios == {FloatV(0, 1), FloatV(1, 20), FloatV(1, 10), FloatV(1, 5),
                FloatV(1, 2), FloatV(1, 1), FloatV(2, 1)}
ScoreSessions == {EmptyDict, "is_active_session" :> BoolV(TRUE),
                  "is_active_session" :> BoolV(FALSE)}
ScoreInputs ==
    {Update(sess, [activity_count_1h |-> IntV(c1), activity_count_24h |-> IntV(c24),
                   event_type_frequency_24h |-> IntV(fr), activity_trend |-> tr,
                   purchase_rate_24h |-> pr]) :
        <<sess, c1, c24, fr, tr, pr>> \in
            ScoreSessions \X ScoreCounts1h \X ScoreCounts24h \X ScoreFreqs
                \X {FloatV(0, 1), FloatV(1, 5), FloatV(1, 2), FloatV(1, 1)} \X ScoreRatios}

ScoreCall ==
    /\ computed = 0
    /\ \E u \in Users, features \in ScoreInputs :
          \E r \in {Engagement(registry,
                         [Locals(registry, cache, now, [user_id |-> u], u,
                                 get_user_variant(registry, u)) EXCEPT !.f = features])} :
             result' = [error |-> r.error, id |-> r.id, f |-> r.f]
    /\ computed' = 1
    /\ UNCHANGED <<registry, cache, now, advances, drift_alerts, fed, freq, runnerVars>>

\* a configuration whose treatment is rolled back: variant B is served the
\* v1 definitions, engagement_score_v2 stays declared v2
RolledBackRegistry ==
    [Registry({}, TRUE) EXCEPT
        !.variants = << [id |-> "A", traffic_percentage |-> 50, features_version |-> "v1"],
                        [id |-> "B", traffic_percentage |-> 50, features_version |-> "v1"] >>]
ScoreRegistries == Registries \cup {RolledBackRegistry}

InitScore ==
    /\ registry \in ScoreRegistries
    /\ InitEnv
    /\ InitRunner
    /\ batch_size = 1

SpecScore == InitScore /\ [][ScoreCall]_vars

\* ------------------------------------------------- the window counters alone
\* compute_windowed_aggregations called as line 474 calls it, for one event of
\* a user after the other, Redis reachable, the store answering with some
\* counts or failing, the clock advancing in between; the driver keeps what
\* the store was asked to answer next to the features returned.
WindowServices == {s \in Services : s.cacheUp}
WindowsCall ==
    /\ computed < MaxComputes
    /\ \E u \in Users, s \in WindowServices :
          /\ computed > 0 => u = result.id.user_id
          /\ \E w \in {compute_windowed_aggregations(registry, cache, now, u, "view",
                              get_user_variant(registry, u), s.dbc, s.dbUp)} :
                /\ result' = [error |-> "",
                              id |-> [user_id |-> u,
                                      ab_variant |-> get_user_variant(registry, u)],
                              f |-> w.f, dbc |-> s.dbc, dbUp |-> s.dbUp]
                /\ cache' = w.c
    /\ computed' = computed + 1
    /\ UNCHANGED <<registry, now, advances, drift_alerts, fed, freq, runnerVars>>

NextWindows == WindowsCall \/ Advance
SpecWindows == InitCompute /\ [][NextWindows]_vars

\* ------------------------------------------------- the event frequency alone
\* Lines 357-359 are three Redis commands, INCR, EXPIRE and GET; Redis runs
\* each of them atomically and serves other clients in between.  One
\* instance runs the three lines for an event of a user; another pipeline
\* instance of the same consumer group increments the same key for an event
\* of its own, and the clock passes.
MaxFreqCalls == 2
MaxOthers == 1
MaxFreqSteps == 2
FreqSteps == {1, 86399}
\* INCR: a key that is absent is created with value 1 and no TTL, the TTL of
\* a key that is there is kept
RedisIncr(c, key) ==
    IF Present(c, key) THEN [c EXCEPT ![key].v = @ + 1]
    ELSE (key :> [v |-> 1, exp |-> NO_EXPIRY]) @@ c
\* EXPIRE: nothing happens to a key that is absent
RedisExpire(c, key, ttl, t) ==
    IF Present(c, key) THEN [c EXCEPT ![key].exp = t + ttl] ELSE c

\* line 357; own is the value INCR answers with, which the code drops
FreqIncr ==
    /\ freq.pc = "idle"
    /\ freq.done < MaxFreqCalls
    /\ \E u \in Users :
          /\ freq.done > 0 => u = freq.user_id
          /\ should_compute_feature(registry, "event_type_frequency_24h",
                                    get_user_variant(registry, u))
          /\ cache' = RedisIncr(cache, EventFreqKey(u, "view"))
          /\ freq' = [freq EXCEPT !.pc = "incremented", !.user_id = u,
                                  !.own = cache'[EventFreqKey(u, "view")].v]
    /\ UNCHANGED <<registry, now, advances, drift_alerts, result, computed, fed,
                   runnerVars>>

\* line 358
FreqExpire ==
    /\ freq.pc = "incremented"
    /\ cache' = RedisExpire(cache, EventFreqKey(freq.user_id, "view"),
                            EVENT_FREQ_TTL, now)
    /\ freq' = [freq EXCEPT !.pc = "refreshed"]
    /\ UNCHANGED <<registry, now, advances, drift_alerts, result, computed, fed,
                   runnerVars>>

\* line 359
FreqGet ==
    /\ freq.pc = "refreshed"
    /\ freq' = [freq EXCEPT !.pc = "idle", !.done = @ + 1,
                            !.emitted = CacheInt(cache, EventFreqKey(freq.user_id, "view"))]
    /\ UNCHANGED <<envVars, result, computed, fed, runnerVars>>

\* another instance runs lines 357-358 for an event of the same user and type
OtherInstance ==
    /\ freq.others < MaxOthers
    /\ freq.user_id # ""
    /\ cache' = RedisExpire(RedisIncr(cache, EventFreqKey(freq.user_id, "view")),
                            EventFreqKey(freq.user_id, "view"), EVENT_FREQ_TTL, now)
    /\ freq' = [freq EXCEPT !.others = @ + 1]
    /\ UNCHANGED <<registry, now, advances, drift_alerts, result, computed, fed,
                   runnerVars>>

\* time passes: the keys whose TTL ends are gone
FreqPass ==
    /\ advances < MaxFreqSteps
    /\ \E step \in FreqSteps :
          /\ now' = now + step
          /\ cache' = Purge(cache, now + step)
    /\ advances' = advances + 1
    /\ UNCHANGED <<registry, drift_alerts, driverVars, runnerVars>>

NextFreq == FreqIncr \/ FreqExpire \/ FreqGet \/ OtherInstance \/ FreqPass
SpecFreq == InitCompute /\ [][NextFreq]_vars

\* ------------------------------------------------- the feature gate alone
\* should_compute_feature called on a defined and on an undefined name, for a
\* variant of the table and for an id the table does not hold, under
\* configurations that give two features and two variants every combination
\* of three version strings.
GateVersions == {"v1", "v2", "v3"}
GateRegistries ==
    {[Registry({}, TRUE) EXCEPT
         !.features = << [name |-> "hour_of_day", version |-> fv[1]],
                         [name |-> "activity_trend", version |-> fv[2]] >>,
         !.variants = << [id |-> "A", traffic_percentage |-> 50,
                          features_version |-> vv[1]],
                         [id |-> "B", traffic_percentage |-> 50,
                          features_version |-> vv[2]] >>] :
        <<fv, vv>> \in (GateVersions \X GateVersions) \X (GateVersions \X GateVersions)}
GateNames == {"hour_of_day", "activity_trend", "computed_extra"}
GateVariants == {"A", "B", "C"}

InitGate ==
    /\ registry \in GateRegistries
    /\ InitEnv
    /\ InitRunner
    /\ batch_size = 1

GateCall ==
    /\ computed = 0
    /\ \E feature_name \in GateNames, variant \in GateVariants :
          result' = [error |-> "",
                     id |-> [feature_name |-> feature_name, variant |-> variant],
                     f |-> EmptyDict,
                     answer |-> should_compute_feature(registry, feature_name, variant)]
    /\ computed' = 1
    /\ UNCHANGED <<registry, cache, now, advances, drift_alerts, fed, freq, runnerVars>>

SpecGate == InitGate /\ [][GateCall]_vars

\* ------------------------------------------------- the variant assignment alone
\* get_user_variant called on a user of each bucket, under variant tables of
\* one, two and three variants whose percentages sum to 100 (a variant with
\* no traffic, a first variant that is not "A"), A/B enabled and disabled.
Variant(id, pct, version) ==
    [id |-> id, traffic_percentage |-> pct, features_version |-> version]
VariantTables ==
    { << Variant("A", 50, "v1"), Variant("B", 50, "v2") >>,
      << Variant("B", 30, "v2"), Variant("A", 70, "v1") >>,
      << Variant("A", 0, "v1"), Variant("B", 100, "v2") >>,
      << Variant("control", 100, "v1") >>,
      << Variant("control", 10, "v1"), Variant("A", 20, "v1"), Variant("B", 70, "v2") >>,
      << Variant("A", 99, "v1"), Variant("B", 1, "v2") >> }
VariantRegistries ==
    {[Registry({}, e) EXCEPT !.variants = t] : e \in BOOLEAN, t \in VariantTables}

InitVariant ==
    /\ registry \in VariantRegistries
    /\ InitEnv
    /\ InitRunner
    /\ batch_size = 1

VariantCall ==
    /\ \E k \in DOMAIN BucketUsers :
          result' = [error |-> "",
                     id |-> [user_id |-> BucketUsers[k],
                             ab_variant |-> get_user_variant(registry, BucketUsers[k])],
                     f |-> EmptyDict]
    /\ computed' = 1
    /\ UNCHANGED <<registry, cache, now, advances, drift_alerts, fed, freq, runnerVars>>

SpecVariant == InitVariant /\ [][VariantCall]_vars

\* ------------------------------------------------------- the drift detector alone
\* record_feature_value fed as line 526 feeds it: a run of low engagement
\* scores, the clock moving in between, then a wait that outlasts the
\* baseline key, then a run of high scores.
MaxLowRun == 3
HighRun == 5
DriftSamples == [low |-> 30, high |-> 60]
WaitSteps == {1801, 3601, 7201}
DriftRegistry ==
    [drift_thresholds |-> ("engagement_score" :> ("mean_shift" :> 10))]
        @@ [Registry({}, TRUE) EXCEPT !.drift_enabled = TRUE]

\* a configuration that names thresholds for the 1h count too
CountDriftRegistry ==
    [DriftRegistry EXCEPT
        !.drift_thresholds = ("engagement_score" :> ("mean_shift" :> 10))
                             @@ ("activity_count_1h" :>
                                    ("mean_shift" :> 100 @@ "std_shift" :> 1))]
DriftRegistries == {DriftRegistry, CountDriftRegistry}

InitDrift ==
    /\ registry \in DriftRegistries
    /\ InitEnv
    /\ InitRunner
    /\ batch_size = 1

\* one call of record_feature_value('engagement_score', value)
Record(value) ==
    \E r \in {record_feature_value(registry, cache, now, "engagement_score", value)} :
        /\ cache' = r.c
        /\ drift_alerts' = IF r.alert
                           THEN [drift_alerts EXCEPT !["engagement_score"] = @ + 1]
                           ELSE drift_alerts

FeedLow ==
    /\ fed.phase = "low"
    /\ fed.low < MaxLowRun
    /\ Record(DriftSamples.low)
    /\ fed' = [fed EXCEPT !.low = @ + 1]
    /\ UNCHANGED <<registry, now, advances, result, computed, freq, runnerVars>>

\* ten minutes or half an hour pass between two samples of the low run
PassTime ==
    /\ fed.phase = "low"
    /\ fed.low > 0
    /\ advances < MaxAdvance
    /\ \E step \in {600, 1800} :
          /\ now' = now + step
          /\ cache' = Purge(cache, now + step)
    /\ advances' = advances + 1
    /\ UNCHANGED <<registry, drift_alerts, driverVars, runnerVars>>

\* the wait between the runs: when it is over the baseline key has expired
Wait ==
    /\ fed.phase = "low"
    /\ fed.low > 0
    /\ \E w \in WaitSteps :
          /\ ~Present(Purge(cache, now + w), DriftBaselineKey("engagement_score"))
          /\ now' = now + w
          /\ cache' = Purge(cache, now + w)
    /\ fed' = [fed EXCEPT !.phase = "high"]
    /\ UNCHANGED <<registry, advances, drift_alerts, result, computed, freq, runnerVars>>

FeedHigh ==
    /\ fed.phase = "high"
    /\ fed.high < HighRun
    /\ Record(DriftSamples.high)
    /\ fed' = [fed EXCEPT !.high = @ + 1]
    /\ UNCHANGED <<registry, now, advances, result, computed, freq, runnerVars>>

\* one call of record_feature_value('activity_count_1h', value) (line 528),
\* a feature DriftRegistry names no thresholds for
MaxCountRun == 2
CountSamples == {1, 5}
FeedCount ==
    /\ fed.counts < MaxCountRun
    /\ \E value \in CountSamples :
          \E r \in {record_feature_value(registry, cache, now, "activity_count_1h",
                                         value)} :
             /\ cache' = r.c
             /\ drift_alerts' = IF r.alert
                                THEN [drift_alerts EXCEPT !["activity_count_1h"] = @ + 1]
                                ELSE drift_alerts
    /\ fed' = [fed EXCEPT !.counts = @ + 1]
    /\ UNCHANGED <<registry, now, advances, result, computed, freq, runnerVars>>

NextDrift == FeedLow \/ PassTime \/ Wait \/ FeedHigh \/ FeedCount
SpecDrift == InitDrift /\ [][NextDrift]_vars

\* ------------------------------------------------------------------ claims

\* C1, as stated: in every state the records sent to feature-events are
\* exactly those whose store_features commit succeeded, whatever fails.
C1_PublishedIffStored == RecordSeqs(published) = stored

\* C1, amended: a record sent to feature-events has had its store_features
\* commit succeed; a committed record is missing from the topic only when
\* producer.send raised, and each such record is counted in events_failed.
C1_PublishedOnlyIfStored ==
    /\ RecordSeqs(published) \subseteq stored
    /\ Cardinality(stored \ RecordSeqs(published)) <= events_failed

\* a flush of two records is over: the commit of one failed, the other was
\* committed and sent
C1_Witness ==
    /\ pc = "flushed"
    /\ \E k \in DOMAIN feature_batch : Seq_(feature_batch[k]) \notin stored
    /\ \E k \in DOMAIN feature_batch : Seq_(feature_batch[k]) \in RecordSeqs(published)

\* C2: while run() waits in the consumer iterator, no event of the batch
\* buffer (consumed, not yet flushed) has its offset committed.
C2_CommitOnlyAfterFlush ==
    pc = "poll" => \A k \in DOMAIN batch : batch[k].seq > committed

\* C3: when process_batch returns, every event of the batch whose
\* compute_features raised has a dead-letter record carrying it unmodified.
C3_ComputeFailureDeadLettered ==
    pc = "flushed" =>
        \A k \in DOMAIN batch :
            batch[k].seq \notin RecordSeqs(feature_batch) =>
                \E j \in DOMAIN dlq : dlq[j].original_event = batch[k]

\* C4: when process_batch returns, every record whose store_features failed
\* (rolled back, not committed) has a dead-letter record for its event.
C4_StoreFailureDeadLettered ==
    pc = "flushed" =>
        \A k \in DOMAIN feature_batch :
            Seq_(feature_batch[k]) \notin stored =>
                \E j \in DOMAIN dlq : dlq[j].original_event = feature_batch[k].id.raw_event

\* C5: once batch_timeout has passed since the last flush with events in the
\* buffer, process_batch is eventually called on them, also when no further
\* message arrives.
C5_TimeoutFlushes ==
    (pc = "poll" /\ batch # <<>> /\ now - last_batch_time >= BATCH_TIMEOUT)
        ~> (pc = "compute")

\* C6: after shutdown() has cleared the running flag, run() eventually
\* reaches cleanup and closes the connections, whether or not a further
\* message arrives.
C6_ShutdownCloses == (~running) ~> closed

\* C7: when process_batch returns, the records it computed are either all
\* committed to the feature store or none of them is.
C7_FlushAtomic ==
    pc = "flushed" =>
        \/ RecordSeqs(feature_batch) \subseteq stored
        \/ RecordSeqs(feature_batch) \cap stored = {}

\* C8: every key of a returned feature record other than the identity fields
\* is a feature name active for the user's variant.
C8_OnlyActiveFeatures ==
    (computed > 0 /\ result.error = "") =>
        \A n \in DOMAIN result.f :
            should_compute_feature(registry, n, result.id.ab_variant)

\* C9: a call of compute_features (Redis reachable, is_active_session active
\* for the variant) that finds no last_event key returns a record with
\* seconds_since_last_event None and is_active_session true; one that finds
\* the key with delta d returns is_active_session = (d < 1800).
C9_SessionFromLastEvent ==
    [][(computed' = computed + 1 /\ result'.error # "ConnectionError"
        /\ should_compute_feature(registry, "is_active_session", result'.id.ab_variant))
       => IF ~Present(cache, LastEventKey(result'.id.user_id))
          THEN /\ result'.error = ""
               /\ IsNone(result'.f["seconds_since_last_event"])
               /\ result'.f["is_active_session"] = BoolV(TRUE)
          ELSE (cache[LastEventKey(result'.id.user_id)].v.ok /\ result'.id.timestamp.ok)
               => /\ result'.error = ""
                  /\ result'.f["is_active_session"] =
                        BoolV(result'.id.timestamp.t
                              - cache[LastEventKey(result'.id.user_id)].v.t < SESSION_GAP)]_vars

\* C10: in every returned feature record seconds_since_last_event is None or
\* a non-negative number.
C10_DeltaNonNegative ==
    (computed > 0 /\ result.error = "") =>
        \/ IsNone(result.f["seconds_since_last_event"])
        \/ result.f["seconds_since_last_event"].n >= 0

\* C11: in every returned feature record that has activity_trend, the value
\* is between 0 and 1 inclusive.
C11_TrendInUnitInterval ==
    (computed > 0 /\ result.error = "" /\ "activity_trend" \in DOMAIN result.f) =>
        /\ result.f["activity_trend"].n >= 0
        /\ result.f["activity_trend"].n <= result.f["activity_trend"].d

\* the engagement score of the returned record, whichever key holds it
ScoreOf(rec) == IF "engagement_score_v2" \in DOMAIN rec.f
                THEN rec.f["engagement_score_v2"].n ELSE rec.f["engagement_score"].n

\* C12: the engagement score computed for an event, by the v1 or the v2
\* algorithm, is between 0 and 100 inclusive.
C12_ScoreInRange ==
    (computed > 0 /\ result.error = "") => (ScoreOf(result) >= 0 /\ ScoreOf(result) <= 100)

\* every tier of an algorithm pays in full: the score is 100
C12_Witness ==
    /\ computed > 0 /\ result.error = ""
    /\ ScoreOf(result) = 100
    /\ result.f["activity_count_24h"].n > 20

RECURSIVE Cumulative(_, _)
Cumulative(variants, n) ==
    IF n = 0 THEN 0 ELSE Cumulative(variants, n - 1) + variants[n].traffic_percentage

\* C14: with A/B enabled, the user of bucket b is given the id of the first
\* variant whose cumulative percentage strictly exceeds b, and each variant
\* is given exactly traffic_percentage of the 100 buckets.
C14_FirstExceedingBucket ==
    (computed > 0 /\ registry.ab_enabled) =>
        /\ \E v \in DOMAIN registry.variants :
              /\ Cumulative(registry.variants, v) > HashBucket(result.id.user_id)
              /\ \A w \in 1..(v - 1) :
                    Cumulative(registry.variants, w) <= HashBucket(result.id.user_id)
              /\ result.id.ab_variant = registry.variants[v].id
        /\ \A v \in DOMAIN registry.variants :
              Cardinality({k \in DOMAIN BucketUsers :
                              get_user_variant(registry, BucketUsers[k])
                                  = registry.variants[v].id})
                  = registry.variants[v].traffic_percentage

\* the user of the last bucket of the first of three variants is assigned
C14_Witness ==
    /\ computed > 0 /\ registry.ab_enabled
    /\ Len(registry.variants) = 3
    /\ HashBucket(result.id.user_id) = 9
    /\ result.id.ab_variant = "control"

\* C15: with A/B disabled, every user is given the id of the first variant
\* of the configured list.
C15_DisabledGivesFirstVariant ==
    (computed > 0 /\ ~registry.ab_enabled) =>
        result.id.ab_variant = registry.variants[1].id

\* the row store_features writes for feature name of a record
RowOf(rec, name) ==
    [feature_value |-> rec.f[name], computed_at |-> rec.id.computed_at,
     feature_version |-> rec.id.feature_version, ab_variant |-> rec.id.ab_variant]

\* C16, as stated: when process_batch counts a record as processed, the
\* store holds for every feature key of the record the row (user_id, key)
\* with the record's value, computed_at, feature_version and ab_variant, and
\* feature-events holds the record.
C16_RowPerFeature ==
    [][(pc = "store" /\ events_processed' = events_processed + 1) =>
          /\ \A name \in DOMAIN feature_batch[i].f :
                /\ <<feature_batch[i].id.user_id, name>> \in DOMAIN db'
                /\ db'[<<feature_batch[i].id.user_id, name>>] = RowOf(feature_batch[i], name)
          /\ \E k \in DOMAIN published' : published'[k] = feature_batch[i]]_vars

\* C16, amended: the same for every feature key of the record whose value is
\* not None; a key whose value is None gets no row written.
C16_RowPerValuedFeature ==
    [][(pc = "store" /\ events_processed' = events_processed + 1) =>
          /\ \A name \in {n \in DOMAIN feature_batch[i].f : ~IsNone(feature_batch[i].f[n])} :
                /\ <<feature_batch[i].id.user_id, name>> \in DOMAIN db'
                /\ db'[<<feature_batch[i].id.user_id, name>>] = RowOf(feature_batch[i], name)
          /\ \A name \in {n \in DOMAIN feature_batch[i].f : IsNone(feature_batch[i].f[n])} :
                <<feature_batch[i].id.user_id, name>> \in DOMAIN db'
                    => db'[<<feature_batch[i].id.user_id, name>>]
                          = db[<<feature_batch[i].id.user_id, name>>]
          /\ \E k \in DOMAIN published' : published'[k] = feature_batch[i]]_vars

\* two records of one user have been counted as processed: the second
\* upserted the rows of the first
C16_Witness ==
    /\ events_processed = 2
    /\ published[1].id.user_id = published[2].id.user_id
    /\ db[<<published[2].id.user_id, "activity_count_1h">>].feature_value = IntV(2)

\* the feature store after the records of a sequence of calls were stored
StoreAfter(recs) ==
    IF Len(recs) = 1 THEN store_features(EmptyDict, recs[1])
    ELSE store_features(store_features(EmptyDict, recs[1]), recs[2])

\* C17: when an event that was processed is processed once more, the feature
\* store holds the same rows with the same feature_value as after the first
\* processing.
C17_ReplayIdempotent ==
    [][(computed > 0 /\ computed' = computed + 1
        /\ result.error = "" /\ result'.error = ""
        /\ result'.id.raw_event = result.id.raw_event)
       => /\ DOMAIN StoreAfter(<<result, result'>>) = DOMAIN StoreAfter(<<result>>)
          /\ \A key \in DOMAIN StoreAfter(<<result>>) :
                StoreAfter(<<result, result'>>)[key].feature_value
                    = StoreAfter(<<result>>)[key].feature_value]_vars

\* C18: a call of compute_features (Redis reachable, is_new_user active for
\* the variant) that finds no first_event key returns a record with
\* is_new_user true and leaves first_event at the event's timestamp; the next
\* call for the user, on an event timestamped 25 hours after that one,
\* returns a record with is_new_user false.
C18_NewUserFlag ==
    [][(computed' = computed + 1 /\ result'.error # "ConnectionError"
        /\ should_compute_feature(registry, "is_new_user", result'.id.ab_variant))
       => IF ~Present(cache, FirstEventKey(result'.id.user_id))
          THEN /\ result'.error = ""
               /\ result'.f["is_new_user"] = BoolV(TRUE)
               /\ Present(cache', FirstEventKey(result'.id.user_id))
               /\ cache'[FirstEventKey(result'.id.user_id)].v = result'.id.timestamp
          ELSE (/\ computed = 1 /\ result.error = ""
                /\ result.f["is_new_user"] = BoolV(TRUE)
                /\ result.id.timestamp.ok /\ result'.id.timestamp.ok
                /\ result'.id.timestamp.t = result.id.timestamp.t + 25 * SECONDS_PER_HOUR)
               => /\ result'.error = ""
                  /\ result'.f["is_new_user"] = BoolV(FALSE)]_vars

\* C20: no call of compute_features ends with the cache's connection error:
\* with Redis unreachable the call still returns a feature record.
C20_CacheFaultDegrades ==
    computed > 0 => result.error # "ConnectionError"

\* C19: once the run of high samples that follows the wait is complete, at
\* least one drift alert has been raised for the feature.
C19_DriftAlertAfterShift ==
    (fed.phase = "high" /\ fed.high = HighRun) => drift_alerts["engagement_score"] >= 1

\* C21: a call of compute_features (Redis reachable) on an event whose
\* ingested_at does not parse returns a feature record without hour_of_day,
\* day_of_week and is_weekend and with seconds_since_last_event None.
C21_BadTimestampDegrades ==
    (computed > 0 /\ ~result.id.timestamp.ok /\ result.error # "ConnectionError") =>
        /\ result.error = ""
        /\ {"hour_of_day", "day_of_week", "is_weekend"} \cap DOMAIN result.f = {}
        /\ IsNone(result.f["seconds_since_last_event"])

\* C22: when the loop has appended a consumed event, it calls process_batch
\* exactly when the buffer has reached batch_size or batch_timeout has passed
\* since the last flush, and otherwise leaves the buffer and last_batch_time
\* alone; process_batch takes the buffered events in append order; after it
\* the loop empties the buffer and sets last_batch_time to the current time.
C22_FlushCondition ==
    [][/\ (pc = "poll" /\ position' = position + 1 /\ running) =>
            /\ batch' = Append(batch, topic[position + 1])
            /\ last_batch_time' = last_batch_time
            /\ pc' = IF \/ Len(batch) + 1 >= batch_size
                        \/ now - last_batch_time >= BATCH_TIMEOUT
                     THEN "compute" ELSE "poll"
       /\ (pc \in {"compute", "store"} /\ after = "loop") =>
            /\ batch' = batch
            /\ last_batch_time' = last_batch_time
       /\ (pc = "compute" /\ after = "loop") =>
            /\ (pc' = "compute" /\ i' # i) => i' = i + 1
            /\ feature_batch' # feature_batch =>
                  feature_batch'[Len(feature_batch')].id.raw_event = batch[i]
       /\ (pc = "flushed" /\ after = "loop") =>
            IF pc' = pc
            THEN batch' = batch /\ last_batch_time' = last_batch_time
            ELSE batch' = <<>> /\ last_batch_time' = now /\ pc' = "poll"]_vars

\* a flush by timeout: process_batch is called on a buffer shorter than
\* batch_size
C22_Witness ==
    /\ pc = "compute" /\ after = "loop"
    /\ Len(batch) < batch_size
    /\ now - last_batch_time = BATCH_TIMEOUT

Flushed == Cardinality({a \in DOMAIN oplog : oplog[a].op = "cache"})

\* C24: every event of a flushed batch increments exactly one of
\* events_processed_total and events_failed_total, once: the failed counter
\* when its compute_features raises, or when its store write or its publish
\* raises, the processed counter when the record is stored and sent; no
\* other step moves a counter, and whenever process_batch is not running
\* processed + failed is the number of events flushed.
C24_CountedOnce ==
    [][/\ oplog' = oplog =>
            /\ events_processed' = events_processed
            /\ events_failed' = events_failed
       /\ (oplog' # oplog /\ oplog'[Len(oplog')].op = "cache") =>
            /\ events_processed' = events_processed
            /\ events_failed' = IF feature_batch' = feature_batch
                                 THEN events_failed + 1 ELSE events_failed
       /\ (oplog' # oplog /\ oplog'[Len(oplog')].op = "store") =>
            LET ok == /\ oplog'[Len(oplog')].seq \in stored'
                      /\ Len(published') = Len(published) + 1
            IN /\ events_processed' = IF ok THEN events_processed + 1
                                       ELSE events_processed
               /\ events_failed' = IF ok THEN events_failed
                                    ELSE events_failed + 1
       /\ pc' \notin {"compute", "store"} =>
            events_processed' + events_failed' = Flushed']_vars

\* two events flushed, one counted as processed and one as failed
C24_Witness ==
    /\ pc = "poll"
    /\ Flushed = 2
    /\ events_processed = 1
    /\ events_failed = 1
\* C25: the feature_version field of every feature record is the version
\* string of the registry, whatever the variant of the user and whatever the
\* features_version of that variant.
C25_RegistryVersion ==
    (computed > 0 /\ result.error = "") =>
        result.id.feature_version = registry.version

\* a record of a user on variant B, whose features_version is not the
\* version of the registry
C25_Witness ==
    /\ computed > 0 /\ result.error = ""
    /\ result.id.ab_variant = "B"
    /\ \E n \in DOMAIN registry.variants :
          /\ registry.variants[n].id = "B"
          /\ registry.variants[n].features_version # registry.version
\* C26: the record carries the score under engagement_score_v2 exactly when
\* the v2 algorithm computed it, that is for variant B with
\* engagement_score_v2 active for the variant; otherwise it carries it under
\* engagement_score, with the value of the v1 formula
\* min(100, (30 if count_1h > 5 else 15 if count_1h > 2 else 0)
\*          + (20 if is_active_session) + (50 if event_type_frequency_24h > 10)).
C26_ScoreNameFollowsAlgorithm ==
    (computed > 0 /\ result.error = "") =>
        LET f == result.f
            v2used == /\ result.id.ab_variant = "B"
                      /\ should_compute_feature(registry, "engagement_score_v2", "B")
            count_1h == Get(f, "activity_count_1h", IntV(0)).n
            event_freq == Get(f, "event_type_frequency_24h", IntV(0)).n
            v1 == (IF count_1h > 5 THEN 30 ELSE IF count_1h > 2 THEN 15 ELSE 0)
                  + (IF Truthy(Get(f, "is_active_session", BoolV(FALSE))) THEN 20 ELSE 0)
                  + (IF event_freq > 10 THEN 50 ELSE 0)
        IN IF v2used
           THEN "engagement_score_v2" \in DOMAIN f /\ "engagement_score" \notin DOMAIN f
           ELSE /\ "engagement_score" \in DOMAIN f
                /\ "engagement_score_v2" \notin DOMAIN f
                /\ f["engagement_score"].n = Min(v1, 100)
\* C27: for each window feature active for the user's variant, the count
\* emitted is the cached value + 1 when the key activity:{user_id}:{window}
\* is in the cache, and otherwise the store's count of the user's events in
\* the window (0 when the query fails) + 1; after the call the key holds the
\* emitted count and lives for the TTL configured for the feature (its entry
\* in feature_ttls, else default_ttl_seconds).  A window feature that is not
\* active is not emitted.
C27_WindowCount ==
    [][computed' = computed + 1 =>
         \A n \in DOMAIN Windows :
            LET name == Windows[n].name
                key == ActivityKey(result'.id.user_id, Windows[n].key)
                historical == IF result'.dbUp THEN result'.dbc[n] ELSE 0
                ttl == IF name \in DOMAIN registry.feature_ttls
                       THEN registry.feature_ttls[name]
                       ELSE registry.default_ttl_seconds
            IN IF should_compute_feature(registry, name, result'.id.ab_variant)
               THEN /\ result'.f[name].n = (IF key \in DOMAIN cache THEN cache[key].v
                                            ELSE historical) + 1
                    /\ cache'[key].v = result'.f[name].n
                    /\ cache'[key].exp = now + ttl
               ELSE name \notin DOMAIN result'.f]_vars

\* a second event of the user half an hour after the first, the store
\* failing: the 1h key has expired and the count starts from 0, the 24h key,
\* whose TTL is one hour, is hit and its count goes up by one
C27_Witness ==
    /\ computed = 2
    /\ ~result.dbUp
    /\ result.f["activity_count_1h"].n = 1
    /\ result.f["activity_count_24h"].n >= 2
    /\ cache[ActivityKey(result.id.user_id, "86400")].v = result.f["activity_count_24h"].n
\* C28: the event_type_frequency_24h emitted for an event is the value its
\* own increment of event_freq:{user_id}:{event_type}:24h produced, also
\* when another pipeline instance increments the key, or the key expires,
\* between the increment and the read.
C28_OwnIncrementEmitted ==
    (freq.pc = "idle" /\ freq.done > 0) => freq.emitted = freq.own
\* C29: should_compute_feature(name, variant) is true exactly when the
\* variant id is not in the variant list, or the name is not defined in any
\* category, or the feature's version is the variant's features_version, or
\* the variant's features_version is "v2"; so it is false only for a defined
\* feature whose version differs from that of a listed variant not on v2.
C29_GateTruthTable ==
    computed = 1 =>
        LET vs == {n \in DOMAIN registry.variants :
                      registry.variants[n].id = result.id.variant}
            fs == {n \in DOMAIN registry.features :
                      registry.features[n].name = result.id.feature_name}
        IN result.answer <=>
              \/ vs = {}
              \/ fs = {}
              \/ \E v \in vs, n \in fs :
                    \/ registry.features[n].version = registry.variants[v].features_version
                    \/ registry.variants[v].features_version = "v2"

\* a feature declared v1 asked for a variant on v3: the answer is False,
\* only v2 makes every feature active
C29_Witness ==
    /\ computed = 1
    /\ ~result.answer
    /\ result.id = [feature_name |-> "hour_of_day", variant |-> "B"]
    /\ registry.features[1].version = "v1"
    /\ registry.variants[2].features_version = "v3"
\* C30: with drift detection enabled, a call of record_feature_value that
\* finds no baseline for the feature copies the stats it has just updated
\* into the baseline, with a TTL of one hour, and raises no alert; so when a
\* record call returns, whatever the feature recorded, the feature has a
\* baseline.
C30_BaselineSeeded ==
    [][\A name \in {"engagement_score", "activity_count_1h"} :
          (IF name = "engagement_score"
           THEN fed'.low # fed.low \/ fed'.high # fed.high
           ELSE fed'.counts # fed.counts) =>
             /\ Present(cache', DriftBaselineKey(name))
             /\ ~Present(cache, DriftBaselineKey(name)) =>
                   /\ cache'[DriftBaselineKey(name)].v = cache'[DriftStatsKey(name)].v
                   /\ cache'[DriftBaselineKey(name)].exp = now + 3600
                   /\ drift_alerts' = drift_alerts]_vars
\* C31: a call of record_feature_value (drift detection enabled) increments
\* feature_drift_alerts for the feature if and only if the feature has
\* thresholds, a baseline was there before the call, and with the stats as
\* the call has updated them |mean_now - mean_base| > mean_shift or
\* |std_now - std_base| > std_shift (10 and 5 when the thresholds do not name
\* them); it increments by one, leaves the alerts of other features alone,
\* and the count of the stats goes up by exactly 1, from 0 when the stats
\* hash was not there.
C31_AlertIffShift ==
    [][\A name \in {"engagement_score", "activity_count_1h"} :
          (IF name = "engagement_score"
           THEN fed'.low # fed.low \/ fed'.high # fed.high
           ELSE fed'.counts # fed.counts) =>
             LET bk == DriftBaselineKey(name)
                 sk == DriftStatsKey(name)
                 th == registry.drift_thresholds
                 mean_shift == IF "mean_shift" \in DOMAIN th[name]
                               THEN th[name]["mean_shift"] ELSE 10
                 std_shift == IF "std_shift" \in DOMAIN th[name]
                              THEN th[name]["std_shift"] ELSE 5
                 shifted ==
                     \/ FGt(FAbs(FSub(cache'[sk].v.mean, cache[bk].v.mean)),
                            FloatV(mean_shift, 1))
                     \/ StdShiftExceeds(cache'[sk].v.variance, cache[bk].v.variance,
                                        std_shift)
             IN /\ drift_alerts'[name] = drift_alerts[name] +
                       (IF name \in DOMAIN th /\ Present(cache, bk) /\ shifted
                        THEN 1 ELSE 0)
                /\ \A other \in DOMAIN drift_alerts \ {name} :
                       drift_alerts'[other] = drift_alerts[other]
                /\ cache'[sk].v.count =
                       (IF Present(cache, sk) THEN cache[sk].v.count ELSE 0) + 1]_vars

\* the 1h count, with thresholds mean_shift 100 and std_shift 1, recorded as
\* 1 and then as 5: the mean moves by 2, the deviation goes from 0 to 2, and
\* the second call raises the alert on the deviation alone
C31_Witness ==
    /\ registry = CountDriftRegistry
    /\ fed.counts = 2
    /\ drift_alerts["activity_count_1h"] = 1
    /\ cache[DriftBaselineKey("activity_count_1h")].v.mean = FloatV(1, 1)
    /\ cache[DriftStatsKey("activity_count_1h")].v.mean = FloatV(3, 1)
\* C32: in every feature record that holds purchase_rate_24h the value is
\* between 0 and 1 inclusive, whatever the purchase and view counters of the
\* user hold.
C32_PurchaseRateInUnitInterval ==
    (computed > 0 /\ result.error = "" /\ "purchase_rate_24h" \in DOMAIN result.f) =>
        /\ result.f["purchase_rate_24h"].n >= 0
        /\ result.f["purchase_rate_24h"].n <= result.f["purchase_rate_24h"].d
\* C33: when cleanup has closed the connections, every message the consumer
\* iterator yielded has been handed to process_batch (compute_features was
\* called on it), on every way out of the run loop: the running flag found
\* cleared, or the iterator raising with events in the buffer.
C33_ConsumedIsProcessedBeforeClose ==
    closed =>
        \A k \in 1..position :
            \E a \in DOMAIN oplog :
                oplog[a].op = "cache" /\ oplog[a].seq = topic[k].seq
\* C34: a call of compute_features that leaves by an exception leaves the
\* cache as it found it: window counters, event-type frequency, last_event,
\* first_event and drift stats hold what they held before the event.
C34_FailedComputeLeavesCache ==
    [][(computed' = computed + 1 /\ result'.error # "") => cache' = cache]_vars
====
